---- MODULE Spec2Model ----
(***************************************************************************)
(* OpenSentinel SDK, Python client (sdk/python/opensentinel_sdk.py).       *)
(*                                                                         *)
(* The client object (its configuration, api_key and app_id), the request  *)
(* primitive _request, the ten public operations and the remote platform   *)
(* as the environment that answers each HTTP request.                      *)
(***************************************************************************)
EXTENDS Integers, Sequences, FiniteSets, TLC

VARIABLES
    cfg,        \* url, app_name, app_type, callback_url, timeout, fallback
    api_key,    \* self.api_key
    app_id,     \* self.app_id
    last,       \* the most recent call: operation, request, reply, outcome
    nCalls,     \* public operations invoked so far
    nRequests,  \* HTTP requests handed to urlopen so far
    key0,       \* history: api_key as construction left it
    registered, \* history: some register() call has stored its response
    pc,         \* concurrent callers: position of each caller
    loc,        \* concurrent callers: `result` in each caller's register()
    regSeen,    \* history: responses stored by register() calls
    regOverlap  \* history: two register() calls were in flight together

vars == <<cfg, api_key, app_id, last, nCalls, nRequests, key0, registered,
          pc, loc, regSeen, regOverlap>>

----------------------------------------------------------------------------
(* Bounds *)

MaxCalls == 3
NCallers == 2

----------------------------------------------------------------------------
(* Python values: None, str, int, list, dict and ChatResponse, each tagged *)
(* with its type.  A dict is a function from its keys to values.           *)

PNone == [k |-> "None"]
PStr(s) == [k |-> "str", s |-> s]
PInt(n) == [k |-> "int", n |-> n]
PList(items) == [k |-> "list", items |-> items]
PDict(d) == [k |-> "dict", d |-> d]
\* A str whose characters matter (a URL): the sequence of its pieces.
PText(c) == [k |-> "text", c |-> c]
NoKeys == [x \in {} |-> PNone]
EmptyDict == PDict(NoKeys)
EmptyList == PList(<<>>)

\* Python truth value, as used by `if result`, `not self.api_key`, `a or b`.
Truthy(v) ==
    CASE v.k = "None" -> FALSE
      [] v.k = "str"  -> v.s # ""
      [] v.k = "int"  -> v.n # 0
      [] v.k = "list" -> Len(v.items) > 0
      [] v.k = "dict" -> v.d # NoKeys
      [] v.k = "text" -> Len(v.c) > 0
      [] OTHER        -> TRUE

\* Python `a or b`.
Or(a, b) == IF Truthy(a) THEN a ELSE b

\* Only a mapping has a .get method; on anything else the attribute lookup
\* raises AttributeError.
HasGet(v) == v.k = "dict"

\* dict.get(key, default)
Get(v, key, default) ==
    IF v.d # NoKeys /\ key \in DOMAIN v.d THEN v.d[key] ELSE default

\* str(v) inside an f-string
Format(v) ==
    CASE v.k = "str"  -> v.s
      [] v.k = "None" -> "None"
      [] OTHER        -> "<repr>"

----------------------------------------------------------------------------
(* Outcomes of a call *)

Ret(v) == [k |-> "return", v |-> v]
\* An exception: its class, its message, and the status code and text it carries.
Raise(exc, msg, code, text) ==
    [k |-> "raise", exc |-> exc, msg |-> msg, code |-> code, text |-> text]
RetBool(b) == [k |-> "return", v |-> [k |-> "bool", b |-> b]]

----------------------------------------------------------------------------
(* Construction: OpenSentinelClient.__init__ *)

DefaultTimeout == 30
HealthTimeout == 5

DefaultUrl == PText(<<"http://localhost:8030">>)

RECURSIVE RStripSlash(_)
\* str.rstrip("/") on the pieces of a URL
RStripSlash(c) ==
    IF Len(c) > 0 /\ c[Len(c)] = "/"
    THEN RStripSlash(SubSeq(c, 1, Len(c) - 1))
    ELSE c

\* os.environ.get(name, default)
EnvGet(env, name, default) == Get(env, name, default)

\* The fields __init__ leaves in the object, from its arguments and the
\* process environment.
Construct(a, env) ==
    LET url == RStripSlash(Or(a.url, EnvGet(env, "OPENSENTINEL_URL", DefaultUrl)).c)
    IN  [ url          |-> url,
          app_name     |-> Or(a.app_name, EnvGet(env, "OPENSENTINEL_APP_NAME", PStr("Unknown App"))),
          app_type     |-> Or(a.app_type, EnvGet(env, "OPENSENTINEL_APP_TYPE", PStr("generic"))),
          api_key      |-> Or(a.api_key, EnvGet(env, "OPENSENTINEL_API_KEY", PNone)),
          callback_url |-> a.callback_url,
          timeout      |-> a.timeout,
          fallback     |-> a.fallback,
          app_id       |-> PNone,
          base_url     |-> url \o <<"/api/sdk">> ]

\* Constructor arguments and environments the model draws from.
Args ==
    [ url          : {PText(<<"http://x", "/">>)},
      app_name     : {PStr("DocGen-AI")},
      app_type     : {PNone},
      api_key      : {PNone, PStr("k0")},
      callback_url : {PNone},
      timeout      : {DefaultTimeout},
      fallback     : BOOLEAN ]

Envs ==
    { EmptyDict,
      PDict([ OPENSENTINEL_URL     |-> PText(<<"http://env", "/", "/">>),
              OPENSENTINEL_API_KEY |-> PStr("") ]) }

----------------------------------------------------------------------------
(* The platform's answers to one HTTP request *)

\* 2xx with a JSON body
OkReply(status, body) == [k |-> "ok", status |-> status, body |-> body]
\* 2xx whose body does not parse as JSON (json.loads raises)
UnparseableReply == [k |-> "unparseable"]
\* HTTPError: an error status; `readable` tells whether the error body can
\* still be read from the connection (e.read() succeeds).
HttpError(code, readable) ==
    [k |-> "http_error", code |-> code, text |-> "body", readable |-> readable]
\* URLError, timeout, TLS failure: no response at all
TransportFailure(cause) == [k |-> "transport", cause |-> cause]

BReg1 == PDict([apiKey |-> PStr("k1"), id |-> PStr("a1")])
BReg2 == PDict([apiKey |-> PStr("k2"), id |-> PStr("a2")])
BRegNoKey == PDict([id |-> PStr("a3")])
BChatFull ==
    PDict([ content   |-> PStr("hi"),
            toolsUsed |-> PList(<<PStr("search")>>),
            usage     |-> PDict([inputTokens |-> PInt(3), outputTokens |-> PInt(5)]),
            app       |-> PStr("X") ])
BChatPartial == PDict([content |-> PStr("hi"), usage |-> PDict([inputTokens |-> PInt(3)])])
BChatNullUsage == PDict([content |-> PStr("hi"), usage |-> PNone])
BList2 == PList(<<PDict([id |-> PInt(1)]), PDict([id |-> PInt(2)])>>)

Bodies ==
    { PNone, EmptyDict, EmptyList, PInt(0), PStr("text"),
      BReg1, BReg2, BRegNoKey, BChatFull, BChatPartial, BChatNullUsage, BList2 }

Replies ==
    { OkReply(200, b) : b \in Bodies }
    \cup { UnparseableReply }
    \cup { HttpError(c, r) : c \in {404, 500}, r \in BOOLEAN }
    \cup { TransportFailure(c) : c \in {"timeout", "refused"} }

HealthReplies ==
    { OkReply(s, PNone) : s \in {200, 204} }
    \cup { HttpError(c, TRUE) : c \in {404, 500} }
    \cup { TransportFailure(c) : c \in {"timeout", "refused", "tls"} }

----------------------------------------------------------------------------
(* The request primitive: OpenSentinelClient._request *)

NoRequest == [k |-> "none"]

\* Variant: the credential test written `self.api_key is None`.
CredentialMissingIsNone(skip_auth, key) == ~skip_auth /\ key = PNone

\* `if not skip_auth: if not self.api_key: raise ValueError(...)`
CredentialMissing(skip_auth, key) == ~skip_auth /\ ~Truthy(key)

\* f"Bearer {self.api_key}"
Bearer(key) == <<"Bearer ", Format(key)>>

\* Variant: the Authorization header added whenever a credential is held.
HeadersWheneverKeyed(skip_auth, key) ==
    IF skip_auth /\ ~Truthy(key)
    THEN [ContentType |-> "application/json"]
    ELSE [ContentType |-> "application/json", Authorization |-> Bearer(key)]

Headers(skip_auth, key) ==
    IF skip_auth
    THEN [ContentType |-> "application/json"]
    ELSE [ContentType |-> "application/json", Authorization |-> Bearer(key)]

\* json.dumps(data).encode("utf-8") if data else None
Body(data) == IF Truthy(data) THEN [k |-> "bytes", json |-> data] ELSE PNone

BuildRequest(self, method, path, data, skip_auth) ==
    [ k       |-> "request",
      url     |-> self.base_url \o <<path>>,
      method  |-> method,
      headers |-> Headers(skip_auth, self.api_key),
      body    |-> Body(data),
      timeout |-> self.timeout ]

\* The try block around urlopen and its two except clauses.
Response(fallback, reply) ==
    CASE reply.k = "ok" -> Ret(reply.body)
      [] reply.k = "http_error" ->
            IF ~reply.readable
            THEN Raise("OSError", "error body unreadable", 0, "")
            ELSE IF fallback
                 THEN Ret(PNone)
                 ELSE Raise("RuntimeError", "OpenSentinel API error",
                            reply.code, reply.text)
      [] OTHER ->
            IF fallback
            THEN Ret(PNone)
            ELSE Raise("RuntimeError", "OpenSentinel connection error", 0,
                       IF reply.k = "transport" THEN reply.cause ELSE "JSONDecodeError")

\* Variant: a failed attempt is tried once more.
UrlopenCallsRetrying(sent, reply) ==
    IF sent THEN (IF reply.k = "ok" THEN 1 ELSE 2) ELSE 0

\* Number of times urlopen is called for one _request.
UrlopenCalls(sent, reply) == IF sent THEN 1 ELSE 0

\* _request(method, path, data, skip_auth) answered by `reply`:
\* whether a request was sent, the request, and what _request returns or raises.
Request(self, method, path, data, skip_auth, reply) ==
    IF CredentialMissing(skip_auth, self.api_key)
    THEN [ sent |-> FALSE, req |-> NoRequest,
           out  |-> Raise("ValueError", "Not registered", 0, "") ]
    ELSE [ sent |-> TRUE,
           req  |-> BuildRequest(self, method, path, data, skip_auth),
           out  |-> Response(self.fallback, reply) ]

----------------------------------------------------------------------------
(* The public operations.  Each takes the object (`self`), its arguments   *)
(* and the platform's reply, and gives what was sent, what the caller gets *)
(* and the api_key and app_id the object holds afterwards.                 *)

AttributeError == Raise("AttributeError", "object has no attribute 'get'", 0, "")

\* An operation that leaves the object as it was.
Pure(self, r, out) ==
    [ sent |-> r.sent, req |-> r.req, out |-> out,
      api_key |-> self.api_key, app_id |-> self.app_id ]

\* Variant: `self.api_key = (result or {}).get("apiKey")`, without the guard.
RegisterKeyUnguarded(result, old) ==
    IF Truthy(result) THEN Get(result, "apiKey", PNone) ELSE PNone

\* self.api_key after `if result: self.api_key = result.get("apiKey")`
RegisterKey(result, old) ==
    IF Truthy(result) THEN Get(result, "apiKey", PNone) ELSE old

\* Variant: app_id read from the wrong key of the response.
RegisterIdFromKey(result, old) ==
    IF Truthy(result) THEN Get(result, "apiKey", PNone) ELSE old

\* self.app_id after `if result: ... self.app_id = result.get("id")`
RegisterId(result, old) ==
    IF Truthy(result) THEN Get(result, "id", PNone) ELSE old

register(self, reply) ==
    LET data == PDict([ name        |-> self.app_name,
                        type        |-> self.app_type,
                        callbackUrl |-> self.callback_url ])
        r == Request(self, "POST", "/register", data, TRUE, reply)
        result == r.out.v
    IN  IF r.out.k = "raise" THEN Pure(self, r, r.out)
        ELSE IF Truthy(result) /\ ~HasGet(result) THEN Pure(self, r, AttributeError)
        ELSE [ sent |-> r.sent, req |-> r.req,
               out  |-> Ret(Or(result, EmptyDict)),
               api_key |-> RegisterKey(result, self.api_key),
               app_id  |-> RegisterId(result, self.app_id) ]

\* Variant: the ChatResponse built from `result or {}`, without the guard.
ChatResultUnguarded(result) ==
    IF Truthy(result) /\ ~HasGet(result)
    THEN Raise("AttributeError", "object has no attribute 'get'", 0, "")
    ELSE Ret([ k             |-> "ChatResponse",
               content       |-> Get(Or(result, EmptyDict), "content", PStr("")),
               tools_used    |-> Get(Or(result, EmptyDict), "toolsUsed", EmptyList),
               input_tokens  |-> PInt(0),
               output_tokens |-> PInt(0),
               app           |-> Get(Or(result, EmptyDict), "app", PStr("")) ])

\* The value chat() builds from what _request returned.
ChatResult(result) ==
    IF Truthy(result)
    THEN IF ~HasGet(result) THEN AttributeError
         ELSE IF ~HasGet(Get(result, "usage", EmptyDict)) THEN AttributeError
         ELSE Ret([ k             |-> "ChatResponse",
                    content       |-> Get(result, "content", PStr("")),
                    tools_used    |-> Get(result, "toolsUsed", EmptyList),
                    input_tokens  |-> Get(Get(result, "usage", EmptyDict), "inputTokens", PInt(0)),
                    output_tokens |-> Get(Get(result, "usage", EmptyDict), "outputTokens", PInt(0)),
                    app           |-> Get(result, "app", PStr("")) ])
    ELSE Ret(PNone)

chat(self, message, context, reply) ==
    LET data == PDict([ message      |-> message,
                        context      |-> context,
                        useTools     |-> [k |-> "bool", b |-> TRUE],
                        systemPrompt |-> PNone ])
        r == Request(self, "POST", "/chat", data, FALSE, reply)
    IN  Pure(self, r, IF r.out.k = "raise" THEN r.out ELSE ChatResult(r.out.v))

notify(self, channel, message, reply) ==
    LET data == PDict([ channel   |-> channel,
                        message   |-> message,
                        recipient |-> PNone,
                        priority  |-> PStr("normal") ])
        r == Request(self, "POST", "/notify", data, FALSE, reply)
    IN  Pure(self, r, r.out)

store_memory(self, content, reply) ==
    LET data == PDict([ content    |-> content,
                        type       |-> PStr("semantic"),
                        importance |-> PInt(5),
                        metadata   |-> PNone ])
        r == Request(self, "POST", "/memory", data, FALSE, reply)
    IN  Pure(self, r, r.out)

\* Variant: `result or []`.
SearchResultOr(result) == Or(result, EmptyList)

\* result if isinstance(result, list) else []
SearchResult(result) == IF result.k = "list" THEN result ELSE EmptyList

search_memory(self, query, reply) ==
    LET data == PDict([ query    |-> query,
                        limit    |-> PInt(5),
                        crossApp |-> [k |-> "bool", b |-> FALSE] ])
        r == Request(self, "POST", "/memory/search", data, FALSE, reply)
    IN  Pure(self, r, IF r.out.k = "raise" THEN r.out ELSE Ret(SearchResult(r.out.v)))

NoTools == PDict([tools |-> EmptyList, count |-> PInt(0)])

list_tools(self, reply) ==
    LET r == Request(self, "GET", "/tools", PNone, FALSE, reply)
    IN  Pure(self, r, IF r.out.k = "raise" THEN r.out ELSE Ret(Or(r.out.v, NoTools)))

execute_tool(self, tool, reply) ==
    LET data == PDict([tool |-> tool, input |-> EmptyDict])
        r == Request(self, "POST", "/tools/execute", data, FALSE, reply)
    IN  Pure(self, r, r.out)

spawn_agent(self, agent_type, task, reply) ==
    LET data == PDict([type |-> agent_type, task |-> task, context |-> PNone])
        r == Request(self, "POST", "/agent/spawn", data, FALSE, reply)
    IN  Pure(self, r, r.out)

status(self, reply) ==
    LET r == Request(self, "GET", "/status", PNone, FALSE, reply)
    IN  Pure(self, r, r.out)

\* Variant: any response that urlopen returns counts as available.
AvailableAny2xx(reply) == reply.k = "ok"

\* resp.status == 200 inside the try; every exception gives False.
Available(reply) == IF reply.k = "ok" THEN reply.status = 200 ELSE FALSE

is_available(self, reply) ==
    LET req == [ k       |-> "request",
                 url     |-> self.url \o <<"/health">>,
                 method  |-> "GET",
                 headers |-> NoKeys,
                 body    |-> PNone,
                 timeout |-> HealthTimeout ]
    IN  Pure(self, [sent |-> TRUE, req |-> req], RetBool(Available(reply)))

----------------------------------------------------------------------------
(* One caller at a time: every operation runs to completion.               *)

Self == cfg @@ [api_key |-> api_key, app_id |-> app_id]

NoReply == [k |-> "none"]

NoCall == [ op |-> "none", sent |-> FALSE, req |-> NoRequest, reply |-> NoReply,
            out |-> Ret(PNone), key_before |-> PNone, id_before |-> PNone ]

InitObject ==
    \E a \in Args, env \in Envs :
        LET c == Construct(a, env)
        IN  /\ cfg = [ url |-> c.url, base_url |-> c.base_url,
                       app_name |-> c.app_name, app_type |-> c.app_type,
                       callback_url |-> c.callback_url, timeout |-> c.timeout,
                       fallback |-> c.fallback ]
            /\ api_key = c.api_key
            /\ app_id = c.app_id
            /\ key0 = c.api_key

Init ==
    /\ InitObject
    /\ last = NoCall
    /\ nCalls = 0
    /\ nRequests = 0
    /\ registered = FALSE
    /\ pc = [t \in 1..NCallers |-> "idle"]
    /\ loc = [t \in 1..NCallers |-> PNone]
    /\ regSeen = {}
    /\ regOverlap = FALSE

\* The effect of one completed call `r` of operation `op` answered by `reply`.
Complete(op, r, reply) ==
    /\ nCalls < MaxCalls
    /\ nCalls' = nCalls + 1
    /\ nRequests' = nRequests + UrlopenCalls(r.sent, reply)
    /\ last' = [ op |-> op, sent |-> r.sent, req |-> r.req,
                 reply |-> IF r.sent THEN reply ELSE NoReply,
                 out |-> r.out, key_before |-> api_key, id_before |-> app_id ]
    /\ api_key' = r.api_key
    /\ app_id' = r.app_id
    /\ registered' = (registered \/ (op = "register" /\ r.out.k = "return" /\ Truthy(r.out.v)))
    /\ UNCHANGED <<cfg, key0, pc, loc, regSeen, regOverlap>>

CallRegister == \E reply \in Replies : Complete("register", register(Self, reply), reply)
CallChat ==
    \E reply \in Replies :
        Complete("chat", chat(Self, PStr("hello"), PNone, reply), reply)
CallNotify ==
    \E reply \in Replies :
        Complete("notify", notify(Self, PStr("slack"), PStr("hello"), reply), reply)
CallStoreMemory ==
    \E reply \in Replies :
        Complete("store_memory", store_memory(Self, PStr("fact"), reply), reply)
CallSearchMemory ==
    \E reply \in Replies :
        Complete("search_memory", search_memory(Self, PStr("fact"), reply), reply)
CallListTools == \E reply \in Replies : Complete("list_tools", list_tools(Self, reply), reply)
CallExecuteTool ==
    \E reply \in Replies :
        Complete("execute_tool", execute_tool(Self, PStr("search"), reply), reply)
CallSpawnAgent ==
    \E reply \in Replies :
        Complete("spawn_agent", spawn_agent(Self, PStr("research"), PStr("task"), reply), reply)
CallStatus == \E reply \in Replies : Complete("status", status(Self, reply), reply)
CallIsAvailable ==
    \E reply \in HealthReplies :
        Complete("is_available", is_available(Self, reply), reply)

Next ==
    \/ CallRegister
    \/ CallChat
    \/ CallNotify
    \/ CallStoreMemory
    \/ CallSearchMemory
    \/ CallListTools
    \/ CallExecuteTool
    \/ CallSpawnAgent
    \/ CallStatus
    \/ CallIsAvailable

Spec == Init /\ [][Next]_vars

----------------------------------------------------------------------------
(* Properties of the operations, one caller at a time *)

AuthOps ==
    { "chat", "notify", "store_memory", "search_memory", "list_tools",
      "execute_tool", "spawn_agent", "status" }

HasAuthorization(req) ==
    req.headers # NoKeys /\ "Authorization" \in DOMAIN req.headers

IsValueError(out) == out.k = "raise" /\ out.exc = "ValueError"

\* C1: an authenticated operation invoked while the client holds no
\* credential raises the configuration error (ValueError), with fallback on
\* or off, and sends no HTTP request for that call.
Thm_C1 ==
    [][ (last'.op \in AuthOps /\ ~Truthy(api_key))
            => /\ IsValueError(last'.out)
               /\ ~last'.sent
               /\ last'.req = NoRequest
               /\ nRequests' = nRequests ]_vars

Wit_C1 ==
    /\ last.op = "chat"
    /\ last.key_before = PStr("")
    /\ cfg.fallback
    /\ IsValueError(last.out)
    /\ nCalls = 2 /\ nRequests = 1

\* What an operation gives when it has no data.
NoData(op) ==
    CASE op = "list_tools"    -> NoTools
      [] op = "search_memory" -> EmptyList
      [] OTHER                -> PNone

\* C2: when the request of an authenticated operation fails with an HTTP
\* error status or a transport failure, then with fallback on the operation
\* raises nothing and returns its no-data result, and with fallback off it
\* raises, for an HTTP error status with the status code and the body text.
CE_C2 ==
    (last.op \in AuthOps /\ last.sent /\ last.reply.k \in {"http_error", "transport"})
        => IF cfg.fallback
           THEN last.out = Ret(NoData(last.op))
           ELSE /\ last.out.k = "raise"
                /\ last.reply.k = "http_error"
                      => /\ last.out.code = last.reply.code
                         /\ last.out.text = last.reply.text

\* C3: every authenticated request carries Authorization: Bearer <api_key>
\* with exactly the credential the client holds, which after a register()
\* that stored its response is the apiKey of that response; register and the
\* health check never carry an Authorization header, credential held or not.
Thm_C3 ==
    [][ /\ (last'.op \in AuthOps /\ last'.sent)
            => /\ api_key.k = "str"
               /\ HasAuthorization(last'.req)
               /\ last'.req.headers.Authorization = <<"Bearer ", api_key.s>>
               /\ api_key' = api_key
        /\ (last'.op \in {"register", "is_available"})
            => /\ last'.sent
               /\ ~HasAuthorization(last'.req)
        /\ (last'.op = "register" /\ last'.out.k = "return" /\ Truthy(last'.out.v))
            => /\ "apiKey" \in DOMAIN last'.reply.body.d
                    => api_key' = last'.reply.body.d.apiKey
               /\ "id" \in DOMAIN last'.reply.body.d
                    => app_id' = last'.reply.body.d.id
        /\ (last'.op # "register") => api_key' = api_key ]_vars

Wit_C3 ==
    /\ last.op = "status"
    /\ last.sent
    /\ registered
    /\ key0 = PNone
    /\ api_key = PStr("k1")
    /\ last.req.headers.Authorization = <<"Bearer ", "k1">>

Storable(reply) == reply.k = "ok" /\ reply.body.k = "dict" /\ reply.body.d # NoKeys

Field(body, key) == IF key \in DOMAIN body.d THEN body.d[key] ELSE PNone

Thm_C5 ==
    (last.op = "chat" /\ last.sent /\ last.out.k = "return")
        => LET body == last.reply.body
               res == last.out.v
               usage == IF "usage" \in DOMAIN body.d THEN body.d.usage ELSE EmptyDict
               At(m, key, default) ==
                   IF m.d # NoKeys /\ key \in DOMAIN m.d THEN m.d[key] ELSE default
           IN  IF Storable(last.reply)
               THEN /\ res.k = "ChatResponse"
                    /\ res.content = At(body, "content", PStr(""))
                    /\ res.tools_used = At(body, "toolsUsed", EmptyList)
                    /\ res.input_tokens = At(usage, "inputTokens", PInt(0))
                    /\ res.output_tokens = At(usage, "outputTokens", PInt(0))
                    /\ res.app = At(body, "app", PStr(""))
               ELSE res = PNone

Wit_C5 ==
    /\ last.op = "chat"
    /\ last.reply = OkReply(200, BChatPartial)
    /\ last.out.k = "return"
    /\ last.out.v.k = "ChatResponse"
    /\ last.out.v.content = PStr("hi")
    /\ last.out.v.input_tokens = PInt(3)
    /\ last.out.v.output_tokens = PInt(0)
    /\ last.out.v.tools_used = EmptyList

\* C6: search_memory() returns the response unchanged when it is a list and
\* an empty list whenever what the request gave is not a list (a mapping,
\* null, nothing, a failed request under fallback); it raises only what the
\* failed request raises, never for the shape of a response.
Thm_C6 ==
    (last.op = "search_memory" /\ last.sent)
        => /\ last.out.k = "raise" => last.reply.k # "ok"
           /\ last.out.k = "return"
                => IF last.reply.k = "ok" /\ last.reply.body.k = "list"
                   THEN last.out.v = last.reply.body
                   ELSE last.out.v = EmptyList

Wit_C6 ==
    /\ last.op = "search_memory"
    /\ last.reply = OkReply(200, BList2)
    /\ last.out = Ret(BList2)

\* C7: is_available() never raises and returns True iff the health response
\* has status exactly 200; it needs no credential, does not depend on the
\* fallback flag and leaves api_key and app_id unchanged.
Thm_C7 ==
    (last.op = "is_available")
        => /\ last.out = RetBool(last.reply.k = "ok" /\ last.reply.status = 200)
           /\ last.sent
           /\ api_key = last.key_before
           /\ app_id = last.id_before

Wit_C7 ==
    /\ last.op = "is_available"
    /\ last.key_before = PNone
    /\ ~cfg.fallback
    /\ last.reply = OkReply(204, PNone)
    /\ last.out = RetBool(FALSE)

CE_C9 ==
    [][ Truthy(api_key) => Truthy(api_key') ]_vars

----------------------------------------------------------------------------
(* Several callers on one client.  The object has no lock; a thread switch *)
(* can fall between any two statements, so register() is three steps (the  *)
(* request, the write of api_key, the write of app_id) and an              *)
(* authenticated operation is two (the credential test, then the header    *)
(* and the request).                                                       *)

Callers == 1..NCallers

RegReplies ==
    { OkReply(200, BReg1), OkReply(200, BReg2), OkReply(200, BRegNoKey),
      OkReply(200, PNone), OkReply(200, PStr("text")),
      HttpError(500, TRUE), TransportFailure("timeout") }

AuthReplies == { OkReply(200, EmptyDict), HttpError(500, TRUE) }

InRegister(t) == pc[t] \in {"reg_key", "reg_id"}

\* register(), line 75: the request, with skip_auth.
RegisterRequest(t) ==
    /\ pc[t] = "idle"
    /\ nCalls < MaxCalls
    /\ \E reply \in RegReplies :
        LET data == PDict([ name        |-> cfg.app_name,
                            type        |-> cfg.app_type,
                            callbackUrl |-> cfg.callback_url ])
            r == Request(Self, "POST", "/register", data, TRUE, reply)
        IN  /\ nRequests' = nRequests + UrlopenCalls(r.sent, reply)
            /\ last' = [ op |-> "register", sent |-> r.sent, req |-> r.req,
                         reply |-> reply, out |-> r.out,
                         key_before |-> api_key, id_before |-> app_id ]
            /\ IF r.out.k = "raise"
               THEN UNCHANGED <<pc, loc>>
               ELSE /\ pc' = [pc EXCEPT ![t] = "reg_key"]
                    /\ loc' = [loc EXCEPT ![t] = r.out.v]
            /\ regSeen' = IF Storable(reply) THEN regSeen \cup {reply.body} ELSE regSeen
            /\ regOverlap' = (regOverlap \/ (r.out.k = "return" /\ \E u \in Callers \ {t} : InRegister(u)))
    /\ nCalls' = nCalls + 1
    /\ UNCHANGED <<cfg, api_key, app_id, key0, registered>>

\* register(), lines 81-82: `if result: self.api_key = result.get("apiKey")`
RegisterStoreKey(t) ==
    /\ pc[t] = "reg_key"
    /\ IF Truthy(loc[t]) /\ HasGet(loc[t])
       THEN /\ api_key' = RegisterKey(loc[t], api_key)
            /\ pc' = [pc EXCEPT ![t] = "reg_id"]
            /\ UNCHANGED loc
       ELSE \* nothing to store, or AttributeError: the call is over
            /\ pc' = [pc EXCEPT ![t] = "idle"]
            /\ loc' = [loc EXCEPT ![t] = PNone]
            /\ UNCHANGED api_key
    /\ UNCHANGED <<cfg, app_id, last, nCalls, nRequests, key0, registered,
                   regSeen, regOverlap>>

\* register(), lines 83-84: `self.app_id = result.get("id")` and the return
RegisterStoreId(t) ==
    /\ pc[t] = "reg_id"
    /\ app_id' = RegisterId(loc[t], app_id)
    /\ registered' = TRUE
    /\ pc' = [pc EXCEPT ![t] = "idle"]
    /\ loc' = [loc EXCEPT ![t] = PNone]
    /\ UNCHANGED <<cfg, api_key, last, nCalls, nRequests, key0, regSeen, regOverlap>>

\* _request, lines 206-208, for an authenticated operation: the credential test
AuthCheck(t) ==
    /\ pc[t] = "idle"
    /\ nCalls < MaxCalls
    /\ nCalls' = nCalls + 1
    /\ IF CredentialMissing(FALSE, api_key)
       THEN /\ last' = [ op |-> "status", sent |-> FALSE, req |-> NoRequest,
                         reply |-> NoReply,
                         out |-> Raise("ValueError", "Not registered", 0, ""),
                         key_before |-> api_key, id_before |-> app_id ]
            /\ UNCHANGED pc
       ELSE /\ pc' = [pc EXCEPT ![t] = "auth_send"]
            /\ UNCHANGED last
    /\ UNCHANGED <<cfg, api_key, app_id, nRequests, key0, registered, loc,
                   regSeen, regOverlap>>

\* _request, lines 209-228: the header from api_key as it is now, the request
AuthSend(t) ==
    /\ pc[t] = "auth_send"
    /\ \E reply \in AuthReplies :
        /\ last' = [ op |-> "status", sent |-> TRUE,
                     req |-> BuildRequest(Self, "GET", "/status", PNone, FALSE),
                     reply |-> reply, out |-> Response(cfg.fallback, reply),
                     key_before |-> api_key, id_before |-> app_id ]
        /\ nRequests' = nRequests + UrlopenCalls(TRUE, reply)
    /\ pc' = [pc EXCEPT ![t] = "idle"]
    /\ UNCHANGED <<cfg, api_key, app_id, nCalls, key0, registered, loc,
                   regSeen, regOverlap>>

NextConc ==
    \E t \in Callers :
        \/ RegisterRequest(t)
        \/ RegisterStoreKey(t)
        \/ RegisterStoreId(t)
        \/ AuthCheck(t)
        \/ AuthSend(t)

SpecConc == Init /\ [][NextConc]_vars

RegistersDone == \A t \in Callers : ~InRegister(t)

PairFrom(body) ==
    /\ api_key = Field(body, "apiKey")
    /\ app_id = Field(body, "id")

\* C10 as stated: under every interleaving, once all register() calls have
\* completed, api_key and app_id are the pair of one single registration
\* response (or as constructed, when no response was stored).
CE_C10 ==
    RegistersDone
        => \/ (api_key = key0 /\ app_id = PNone)
           \/ \E body \in regSeen : PairFrom(body)

\* C10, amended: once all register() calls have completed, api_key is the
\* apiKey of some stored registration response (or as constructed) and
\* app_id the id of some stored registration response (or None), and the two
\* come from one single response provided no two register() calls were in
\* flight together; authenticated operations may interleave freely.
Thm_C10 ==
    RegistersDone
        => /\ api_key \in {key0} \cup { Field(body, "apiKey") : body \in regSeen }
           /\ app_id \in {PNone} \cup { Field(body, "id") : body \in regSeen }
           /\ ~regOverlap
                => \/ (regSeen = {} /\ api_key = key0 /\ app_id = PNone)
                   \/ \E body \in regSeen : PairFrom(body)

Wit_C10 ==
    /\ RegistersDone
    /\ regOverlap
    /\ api_key = PStr("k2")
    /\ app_id = PStr("a1")

====
